---- MODULE Spec2Model ----
(***************************************************************************)
(* The runner worker process of src/runner/runner.rs: connection retry,    *)
(* the `ready` handshake, the Ctrl+C handler, the heartbeat task, the      *)
(* one-shot bootstrap on the first message and the dispatch loop.          *)
(*                                                                         *)
(* Threads: the main flow (pc), the ctrlc handler thread (hpc) and the     *)
(* heartbeat task (hb).  The coordinator (listener, inbox, closed) and the  *)
(* interrupt signal are the environment.                                   *)
(***************************************************************************)
EXTENDS Naturals, Sequences, FiniteSets

\* ---------------------------------------------------------------- bounds
\* messages the coordinator writes on the Connection in one run
MaxMsgs == 3
\* messages in flight from the coordinator (written, not yet received)
MaxInbox == 1
\* interrupt signals raised in one run
MaxInterrupts == 1
\* sequence ids carried by FinishDecode
MaxSeqId == 1

VARIABLES
    pc,            \* position of the main flow in main()
    status,        \* process status: "running" or how the process ended
    listener,      \* the coordinator's listener exists
    stream,        \* result of LocalStream::connect: "none", "err", "ok"
    sent,          \* what the worker wrote on the Connection, in order
    inbox,         \* coordinator -> worker messages in flight
    coordSent,     \* number of messages the coordinator has written
    closed,        \* the coordinator closed its end of the stream
    model_loaded,  \* AtomicBool model_loaded
    stop_flag,     \* AtomicBool stop_flag
    handlerSet,    \* ctrlc::set_handler has installed the handler
    sigPending,    \* interrupts delivered to the handler thread, not yet handled
    interrupts,    \* interrupt signals raised so far
    hpc,           \* position of the ctrlc handler thread
    hb,            \* heartbeat task: "none", "failed", "running", "missed", "done"
    msg,           \* the first message (line 62): "none" or its variant
    rx,            \* outcome of receive_local being handled, "none" between messages
    runner,        \* Runner Session: whether it exists, the ids it finished
    reporter,      \* progress reporter the Init arm ended up with, "none" outside it
    warm,          \* what the warmup pass of the Init arm did, "none" outside it
    runReqs,       \* RunPrefill/RunDecode messages received
    outputs        \* outputs of runner.run() waiting to be sent

vars == << pc, status, listener, stream, sent, inbox, coordSent, closed,
           model_loaded, stop_flag, handlerSet, sigPending, interrupts, hpc,
           hb, msg, rx, runner, reporter, warm, runReqs, outputs >>

connVars == << stream, sent >>
flagVars == << model_loaded, stop_flag, handlerSet >>
armVars == << reporter, warm >>
bootVars == << msg, runner, reporter, warm >>
loopVars == << rx, runReqs, outputs >>
handlerVars == << sigPending, hpc >>
hbVars == << hb >>
envVars == << listener, coordSent, closed, interrupts >>

\* ------------------------------------------------------------- messages
SeqIds == 1..MaxSeqId

PlainTypes == { "Init", "InitAck", "RunPrefill", "RunDecode", "RunResponse",
                "LoadingProgress", "Shutdown" }

Msg(t, i) == [type |-> t, id |-> i]

MessageType == { Msg(t, 0) : t \in PlainTypes }
                   \cup { Msg("FinishDecode", i) : i \in SeqIds }

\* no Runner Session (before line 113)
NoSession == [live |-> FALSE, finished |-> { }]

Running == status = "running"

\* what the process can end as: exit(0), main returning Err, a panic,
\* or death by the default disposition of SIGINT
Statuses == { "running", "ok", "err", "panic", "sigint" }

Init ==
    /\ pc = "connect"
    /\ status = "running"
    /\ listener \in BOOLEAN
    /\ stream = "none"
    /\ sent = << >>
    /\ inbox = << >>
    /\ coordSent = 0
    /\ closed = FALSE
    /\ model_loaded = FALSE
    /\ stop_flag = FALSE
    /\ handlerSet = FALSE
    /\ sigPending = 0
    /\ interrupts = 0
    /\ hpc = "wait"
    /\ hb = "none"
    /\ msg = "none"
    /\ rx = "none"
    /\ runner = NoSession
    /\ reporter = "none"
    /\ warm = "none"
    /\ runReqs = 0
    /\ outputs = 0

\* LocalStream::connect succeeds exactly when the listener exists
ConnectResult == IF listener THEN "ok" ELSE "err"

\* a step of the main flow that only moves on
Goto(l) == pc' = l /\ status' = status

\* the process ends where it stands: main returns Err (`?`) or panics
Die(how) == pc' = pc /\ status' = how

\* ------------------------------------------------ Connection Establisher
\* lines 31-34: first connect, creation of model_loaded (false)
Connect ==
    /\ Running /\ pc = "connect"
    /\ stream' = ConnectResult
    /\ Goto("retry")
    /\ UNCHANGED << sent, inbox, flagVars, bootVars, loopVars >>
    /\ UNCHANGED << handlerVars, hbVars, envVars >>

\* mutant: the loop gives up and returns the error of a failed attempt
RetryLoopGivesUp ==
    /\ Running /\ pc = "retry"
    /\ IF stream = "ok"
         THEN Goto("handshake") /\ stream' = stream
         ELSE /\ stream' = ConnectResult
              /\ IF ConnectResult = "ok" THEN Goto("retry") ELSE Die("err")
    /\ UNCHANGED << sent, inbox, flagVars, bootVars, loopVars >>
    /\ UNCHANGED << handlerVars, hbVars, envVars >>

\* lines 36-43: leave the loop once connected, otherwise connect again
RetryLoop ==
    /\ Running /\ pc = "retry"
    /\ IF stream = "ok"
         THEN Goto("handshake") /\ stream' = stream
         ELSE Goto("retry") /\ stream' = ConnectResult
    /\ UNCHANGED << sent, inbox, flagVars, bootVars, loopVars >>
    /\ UNCHANGED << handlerVars, hbVars, envVars >>

\* ------------------------------------------------------------- Handshake
\* what write_all and flush can do: both succeed, write_all fails, or the
\* token is written and flush fails
HandshakeOutcomes == { "ok", "write_err", "flush_err" }

\* mutant: the token is written again on a connection that already carries it
HandshakeTwice ==
    /\ Running /\ pc = "handshake"
    /\ sent' = Append(Append(sent, "ready"), "ready")
    /\ Goto("set_handler")
    /\ UNCHANGED << stream, inbox, flagVars, bootVars, loopVars >>
    /\ UNCHANGED << handlerVars, hbVars, envVars >>

\* lines 44-46: write_all(b"ready\n")?; flush()?
Handshake ==
    /\ Running /\ pc = "handshake"
    /\ \E o \in HandshakeOutcomes :
         /\ sent' = IF o = "write_err" THEN sent ELSE Append(sent, "ready")
         /\ IF o = "ok" THEN Goto("set_handler") ELSE Die("err")
    /\ UNCHANGED << stream, inbox, flagVars, bootVars, loopVars >>
    /\ UNCHANGED << handlerVars, hbVars, envVars >>

\* ----------------------------------------------------- Ctrl+C handler
\* lines 48-56: ctrlc::set_handler(..).expect(..)
SetHandler ==
    /\ Running /\ pc = "set_handler"
    /\ \E ok \in BOOLEAN :
         IF ok THEN handlerSet' = TRUE /\ Goto("heartbeat")
               ELSE handlerSet' = handlerSet /\ Die("panic")
    /\ UNCHANGED << connVars, inbox, model_loaded, stop_flag, bootVars, loopVars >>
    /\ UNCHANGED << handlerVars, hbVars, envVars >>

\* mutant: the handler tests the flag the wrong way round
HandlerBranchInverted(loaded) == IF loaded THEN "warn" ELSE "log"

\* line 49: the branch the handler takes on the value it loads
HandlerBranch(loaded) == IF loaded THEN "log" ELSE "warn"

\* an interrupt signal is raised: before set_handler the default disposition
\* of SIGINT kills the process; afterwards the handler thread is woken
Interrupt ==
    /\ Running /\ interrupts < MaxInterrupts
    /\ interrupts' = interrupts + 1
    /\ IF handlerSet
         THEN sigPending' = sigPending + 1 /\ status' = status
         ELSE sigPending' = sigPending /\ status' = "sigint"
    /\ UNCHANGED << pc, connVars, inbox, flagVars, bootVars, loopVars, hpc, hbVars >>
    /\ UNCHANGED << listener, coordSent, closed >>

\* line 49: the handler thread runs the closure and loads model_loaded
HandlerLoad ==
    /\ Running /\ hpc = "wait" /\ sigPending > 0
    /\ sigPending' = sigPending - 1
    /\ hpc' = HandlerBranch(model_loaded)
    /\ UNCHANGED << pc, status, connVars, inbox, flagVars, bootVars, loopVars >>
    /\ UNCHANGED << hbVars, envVars >>

\* mutant: the "new session" branch resets the flag
HandlerLogResets ==
    /\ Running /\ hpc = "log"
    /\ hpc' = "wait"
    /\ model_loaded' = FALSE
    /\ UNCHANGED << pc, status, connVars, inbox, stop_flag, handlerSet >>
    /\ UNCHANGED << bootVars, loopVars, sigPending, hbVars, envVars >>

\* line 50: log "Runner start new session!" and return
HandlerLog ==
    /\ Running /\ hpc = "log"
    /\ hpc' = "wait"
    /\ UNCHANGED << pc, status, connVars, inbox, flagVars, bootVars, loopVars >>
    /\ UNCHANGED << sigPending, hbVars, envVars >>

\* mutant: the handler exits with a failure code
HandlerExitFailure == "err"

\* the exit code the handler ends the process with (line 53)
HandlerExitStatus == "ok"

\* lines 52-53: log the warning and std::process::exit(0)
HandlerExit ==
    /\ Running /\ hpc = "warn"
    /\ hpc' = "exited"
    /\ status' = HandlerExitStatus
    /\ UNCHANGED << pc, connVars, inbox, flagVars, bootVars, loopVars >>
    /\ UNCHANGED << sigPending, hbVars, envVars >>

\* ------------------------------------------------------------- Heartbeat
\* mutant: the result of heartbeat_worker(..) is propagated with `?`
SpawnHeartbeatChecked ==
    /\ Running /\ pc = "heartbeat"
    /\ \E ok \in BOOLEAN :
         IF ok THEN hb' = "running" /\ Goto("recv_first")
               ELSE hb' = "failed" /\ Die("err")
    /\ UNCHANGED << connVars, inbox, flagVars, bootVars, loopVars >>
    /\ UNCHANGED << handlerVars, envVars >>

\* lines 59-60: stop_flag created false; heartbeat_worker(..) started, its
\* result dropped (let _ =)
SpawnHeartbeat ==
    /\ Running /\ pc = "heartbeat"
    /\ hb' \in { "running", "failed" }
    /\ Goto("recv_first")
    /\ UNCHANGED << connVars, inbox, flagVars, bootVars, loopVars >>
    /\ UNCHANGED << handlerVars, envVars >>

\* the heartbeat task is running; "missed" when its last liveness send failed
HbAlive == hb \in { "running", "missed" }

\* the heartbeat task sends one liveness signal (not on the Connection); the
\* send succeeds or fails and the task goes on either way
HeartbeatBeat ==
    /\ Running /\ HbAlive /\ ~stop_flag
    /\ \E ok \in BOOLEAN : hb' = IF ok THEN "running" ELSE "missed"
    /\ UNCHANGED << pc, status, connVars, inbox, flagVars, bootVars, loopVars >>
    /\ UNCHANGED << handlerVars, envVars >>

\* the heartbeat task sees stop_flag and terminates
HeartbeatStop ==
    /\ Running /\ HbAlive /\ stop_flag
    /\ hb' = "done"
    /\ UNCHANGED << pc, status, connVars, inbox, flagVars, bootVars, loopVars >>
    /\ UNCHANGED << handlerVars, envVars >>

\* ------------------------------------------------------------- receiving
\* what a blocking receive_local can return now: the message at the head of
\* the stream, UnexpectedEof once the coordinator closed an empty stream, or
\* (at any time) another I/O error
RecvOutcomes ==
    (IF inbox # << >> THEN { Head(inbox).type }
     ELSE IF closed THEN { "Eof" } ELSE { })
        \cup { "IoErr" }

IsErr(o) == o \in { "Eof", "IoErr" }

\* the stream after a receive with outcome o
Consume(o) == IF IsErr(o) THEN inbox ELSE Tail(inbox)

\* ---------------------------------------------------- Bootstrap Sequencer
\* mutant: the catch-all arm of the first match continues as the Init arm does
FirstArmLenient(o) == IF IsErr(o) THEN "err" ELSE "init"

\* mutant: a failed first receive is unwrapped instead of propagated
FirstArmUnwrap(o) ==
    IF IsErr(o) THEN "panic"
    ELSE IF o = "Init" THEN "init"
    ELSE "panic"

\* lines 62-64 and 148-151: the arm the first receive takes
FirstArm(o) ==
    IF IsErr(o) THEN "err"
    ELSE IF o = "Init" THEN "init"
    ELSE "panic"

\* lines 62-65, 148-152: receive_local(&mut stream, true)?; match msg
RecvFirst ==
    /\ Running /\ pc = "recv_first"
    /\ \E o \in RecvOutcomes :
         /\ rx' = o
         /\ inbox' = Consume(o)
         /\ msg' = IF IsErr(o) THEN msg ELSE o
         /\ CASE FirstArm(o) = "init" -> Goto("new_device")
              [] FirstArm(o) = "err" -> Die("err")
              [] OTHER -> Die("panic")
    /\ UNCHANGED << connVars, flagVars, runner, armVars, runReqs, outputs >>
    /\ UNCHANGED << handlerVars, hbVars, envVars >>

\* line 67: new_device(init_req.dev_id)?
NewDevice ==
    /\ Running /\ pc = "new_device"
    /\ \E ok \in BOOLEAN : IF ok THEN Goto("comm") ELSE Die("err")
    /\ UNCHANGED << connVars, inbox, flagVars, bootVars, loopVars >>
    /\ UNCHANGED << handlerVars, hbVars, envVars >>

\* what building the communicator can do: Comm::default() of a build without
\* feature nccl, or Comm::from_rank(..).unwrap() joining or panicking
CommOutcomes == { "default", "joined", "panic" }

\* lines 69-81: the communicator; with feature nccl the call returns once the
\* peer shards have joined
CommJoin ==
    /\ Running /\ pc = "comm"
    /\ \E o \in CommOutcomes :
         IF o = "panic" THEN Die("panic") ELSE Goto("progress")
    /\ UNCHANGED << connVars, inbox, flagVars, bootVars, loopVars >>
    /\ UNCHANGED << handlerVars, hbVars, envVars >>

\* the reporter bootstrap ends up with
ReporterOutcomes == { "remote", "local" }

\* lines 85-104: RemoteProgressReporter::new, or the local ProgressReporter
NewReporter ==
    /\ Running /\ pc = "progress"
    /\ \E o \in ReporterOutcomes : reporter' = o /\ Goto("var_builder")
    /\ UNCHANGED << connVars, inbox, flagVars, msg, runner, warm, loopVars >>
    /\ UNCHANGED << handlerVars, hbVars, envVars >>

\* lines 106-111: VarBuilderX::new(..)?
LoadWeights ==
    /\ Running /\ pc = "var_builder"
    /\ \E ok \in BOOLEAN : IF ok THEN Goto("model_runner") ELSE Die("err")
    /\ UNCHANGED << connVars, inbox, flagVars, bootVars, loopVars >>
    /\ UNCHANGED << handlerVars, hbVars, envVars >>

\* mutant: the arm hands back no usable session
NewSessionMissing == [live |-> FALSE, finished |-> { }]

\* a freshly built Runner Session: no sequence finished
NewSession == [live |-> TRUE, finished |-> { }]

\* mutant: a failed construction is reported to the coordinator before the
\* error is propagated
NewRunnerAcksFailure ==
    /\ Running /\ pc = "model_runner"
    /\ \E ok \in BOOLEAN :
         IF ok THEN runner' = NewSession /\ sent' = sent /\ Goto("warmup")
               ELSE /\ runner' = runner
                    /\ sent' = Append(sent, "InitAck(false)")
                    /\ Die("err")
    /\ UNCHANGED << stream, inbox, flagVars, msg, armVars, loopVars >>
    /\ UNCHANGED << handlerVars, hbVars, envVars >>

\* lines 113-125: ModelRunner::new(..)?
NewRunner ==
    /\ Running /\ pc = "model_runner"
    /\ \E ok \in BOOLEAN :
         IF ok THEN runner' = NewSession /\ Goto("warmup")
               ELSE runner' = runner /\ Die("err")
    /\ UNCHANGED << connVars, inbox, flagVars, msg, armVars, loopVars >>
    /\ UNCHANGED << handlerVars, hbVars, envVars >>

\* the warmup pass is compiled out, captures the graph, or fails
WarmupOutcomes == { "skipped", "captured", "failed" }

\* mutant: a failed warmup pass is propagated like the other failures
WarmupFatal ==
    /\ Running /\ pc = "warmup"
    /\ \E o \in WarmupOutcomes :
         /\ warm' = o
         /\ IF o = "failed" THEN Die("err") ELSE Goto("init_ack")
    /\ UNCHANGED << connVars, inbox, flagVars, msg, runner, reporter, loopVars >>
    /\ UNCHANGED << handlerVars, hbVars, envVars >>

\* lines 127-139: runner.warmup_capture() under features cuda+graph; its
\* failure is printed and bootstrap goes on
Warmup ==
    /\ Running /\ pc = "warmup"
    /\ \E o \in WarmupOutcomes : warm' = o /\ Goto("init_ack")
    /\ UNCHANGED << connVars, inbox, flagVars, msg, runner, reporter, loopVars >>
    /\ UNCHANGED << handlerVars, hbVars, envVars >>

\* what a try_clone()? followed by send_local(..)? can do
SendOutcomes == { "ok", "clone_err", "send_err" }

\* mutant: bootstrap acknowledges with InitAck(false)
InitAckFalse == "InitAck(false)"

\* the message bootstrap acknowledges with (line 143)
InitAckMsg == "InitAck(true)"

\* lines 141-146: send_local(&mut vec![stream.try_clone()?], InitAck(true))?
SendInitAck ==
    /\ Running /\ pc = "init_ack"
    /\ \E o \in SendOutcomes :
         IF o = "ok" THEN sent' = Append(sent, InitAckMsg) /\ Goto("store_loaded")
                     ELSE sent' = sent /\ Die("err")
    /\ UNCHANGED << stream, inbox, flagVars, bootVars, loopVars >>
    /\ UNCHANGED << handlerVars, hbVars, envVars >>

\* lines 146-155: the Init arm ends, model_loaded.store(true)
StoreLoaded ==
    /\ Running /\ pc = "store_loaded"
    /\ model_loaded' = TRUE
    /\ reporter' = "none" /\ warm' = "none"
    /\ Goto("recv")
    /\ UNCHANGED << connVars, inbox, stop_flag, handlerSet, msg, runner, loopVars >>
    /\ UNCHANGED << handlerVars, hbVars, envVars >>

\* ---------------------------------------------------------- Dispatch Loop
\* lines 162 and 173: the variants that carry a batch to run
IsRun(o) == o \in { "RunPrefill", "RunDecode" }

\* mutant: the Run arms drop the batch and go back to the receive
RouteNoReply(o) ==
    IF IsErr(o) \/ o = "Shutdown" THEN "store_stop" ELSE "recv"

\* mutant: the FinishDecode arm falls into the Run arm and answers
RouteAnswersFinish(o) ==
    IF IsErr(o) \/ o = "Shutdown" THEN "store_stop"
    ELSE IF IsRun(o) \/ o = "FinishDecode" THEN "run"
    ELSE "recv"

\* mutant: the catch-all arm of the loop ends the loop as the first match does
RouteStrict(o) ==
    IF IsErr(o) \/ o = "Shutdown" THEN "store_stop"
    ELSE IF IsRun(o) THEN "run"
    ELSE IF o = "FinishDecode" THEN "recv"
    ELSE "store_stop"

\* mutant: an Init received by the loop starts bootstrap again
RouteReinit(o) ==
    IF IsErr(o) \/ o = "Shutdown" THEN "store_stop"
    ELSE IF IsRun(o) THEN "run"
    ELSE IF o = "Init" THEN "new_device"
    ELSE "recv"

\* lines 157-196: where the match on a receive outcome sends the loop
Route(o) ==
    IF IsErr(o) \/ o = "Shutdown" THEN "store_stop"
    ELSE IF IsRun(o) THEN "run"
    ELSE "recv"

\* mutant: the FinishDecode arm drops the id
FinishedIgnored(r, id) == r

\* line 185: runner.finished(id)
Finished(r, id) == [r EXCEPT !.finished = @ \cup { id }]

\* lines 157-161, 162, 173, 181-196: receive_local(&mut stream, false) and
\* the arms that neither run a batch nor send
RecvLoop ==
    /\ Running /\ pc = "recv"
    /\ \E o \in RecvOutcomes :
         /\ rx' = IF Route(o) = "recv" THEN "none" ELSE o
         /\ inbox' = Consume(o)
         /\ Goto(Route(o))
         /\ runReqs' = IF IsRun(o) THEN runReqs + 1 ELSE runReqs
         /\ runner' = IF o = "FinishDecode"
                        THEN Finished(runner, Head(inbox).id)
                        ELSE runner
    /\ UNCHANGED << connVars, flagVars, msg, armVars, outputs >>
    /\ UNCHANGED << handlerVars, hbVars, envVars >>

\* lines 163-166 and 174: runner.run(..)?
RunBatch ==
    /\ Running /\ pc = "run"
    /\ \E ok \in BOOLEAN :
         IF ok THEN outputs' = outputs + 1 /\ Goto("send_resp")
               ELSE outputs' = outputs /\ Die("err")
    /\ UNCHANGED << connVars, inbox, flagVars, bootVars, rx, runReqs >>
    /\ UNCHANGED << handlerVars, hbVars, envVars >>

\* lines 167-171 and 175-179: send_local(.., RunResponse(outputs))?
SendResponse ==
    /\ Running /\ pc = "send_resp"
    /\ \E o \in SendOutcomes :
         IF o = "ok"
           THEN /\ sent' = Append(sent, "RunResponse")
                /\ outputs' = outputs - 1
                /\ rx' = "none"
                /\ Goto("recv")
           ELSE /\ sent' = sent
                /\ outputs' = outputs
                /\ rx' = rx
                /\ Die("err")
    /\ UNCHANGED << stream, inbox, flagVars, bootVars, runReqs >>
    /\ UNCHANGED << handlerVars, hbVars, envVars >>

\* mutant: the loop exit forgets to store stop_flag
StoreStopForgotten ==
    /\ Running /\ pc = "store_stop"
    /\ stop_flag' = stop_flag
    /\ Goto("exit")
    /\ UNCHANGED << connVars, inbox, model_loaded, handlerSet, bootVars, loopVars >>
    /\ UNCHANGED << handlerVars, hbVars, envVars >>

\* line 198: stop_flag.store(true)
StoreStop ==
    /\ Running /\ pc = "store_stop"
    /\ stop_flag' = TRUE
    /\ Goto("exit")
    /\ UNCHANGED << connVars, inbox, model_loaded, handlerSet, bootVars, loopVars >>
    /\ UNCHANGED << handlerVars, hbVars, envVars >>

\* mutant: main exits with a failure code after the loop
MainExitFailure == "err"

\* the exit code main ends the process with (line 200)
MainExitStatus == "ok"

\* lines 199-200: std::process::exit(0)
Exit ==
    /\ Running /\ pc = "exit"
    /\ pc' = "done"
    /\ status' = MainExitStatus
    /\ UNCHANGED << connVars, inbox, flagVars, bootVars, loopVars >>
    /\ UNCHANGED << handlerVars, hbVars, envVars >>

\* ----------------------------------------------------------- environment
\* the coordinator starts listening
ListenerUp ==
    /\ Running /\ ~listener
    /\ listener' = TRUE
    /\ UNCHANGED << pc, status, connVars, inbox, flagVars, bootVars, loopVars >>
    /\ UNCHANGED << handlerVars, hbVars, coordSent, closed, interrupts >>

\* the coordinator's listener goes away again; its presence is read only by
\* the connection attempts, so it is tracked until the worker is connected
ListenerDown ==
    /\ Running /\ listener /\ stream # "ok"
    /\ listener' = FALSE
    /\ UNCHANGED << pc, status, connVars, inbox, flagVars, bootVars, loopVars >>
    /\ UNCHANGED << handlerVars, hbVars, coordSent, closed, interrupts >>

\* the coordinator writes a message of any variant on the Connection
CoordSend ==
    /\ Running /\ stream = "ok" /\ ~closed
    /\ coordSent < MaxMsgs /\ Len(inbox) < MaxInbox
    /\ \E m \in MessageType : inbox' = Append(inbox, m)
    /\ coordSent' = coordSent + 1
    /\ UNCHANGED << pc, status, connVars, flagVars, bootVars, loopVars >>
    /\ UNCHANGED << handlerVars, hbVars, listener, closed, interrupts >>

\* the coordinator closes its end of the Connection
CoordClose ==
    /\ Running /\ stream = "ok" /\ ~closed
    /\ closed' = TRUE
    /\ UNCHANGED << pc, status, connVars, inbox, flagVars, bootVars, loopVars >>
    /\ UNCHANGED << handlerVars, hbVars, listener, coordSent, interrupts >>

\* ---------------------------------------------------------- specification
\* the steps of the main flow that do not wait for the environment
Compute ==
    \/ Connect \/ RetryLoop \/ Handshake \/ SetHandler \/ SpawnHeartbeat
    \/ NewDevice \/ NewReporter \/ LoadWeights \/ NewRunner \/ Warmup
    \/ SendInitAck \/ StoreLoaded \/ RunBatch \/ SendResponse \/ StoreStop
    \/ Exit

Main ==
    \/ Connect \/ RetryLoop \/ Handshake \/ SetHandler \/ SpawnHeartbeat
    \/ RecvFirst \/ NewDevice \/ CommJoin \/ NewReporter \/ LoadWeights
    \/ NewRunner \/ Warmup \/ SendInitAck \/ StoreLoaded
    \/ RecvLoop \/ RunBatch \/ SendResponse \/ StoreStop \/ Exit

Handler == HandlerLoad \/ HandlerLog \/ HandlerExit

Heartbeat == HeartbeatBeat \/ HeartbeatStop

Environment ==
    Interrupt \/ ListenerUp \/ ListenerDown \/ CoordSend \/ CoordClose

Next == Main \/ Handler \/ Heartbeat \/ Environment

Spec == Init /\ [][Next]_vars

\* the threads are scheduled: none is starved while it can step.  The
\* blocking calls (receive_local, the group join) return only when the
\* environment lets them.
FairSpec ==
    /\ Spec
    /\ WF_vars(Compute)
    /\ WF_vars(Handler)
    /\ WF_vars(Heartbeat)

TypeOK ==
    /\ status \in Statuses
    /\ stream \in { "none", "err", "ok" }
    /\ sigPending \in 0..interrupts
    /\ hpc \in { "wait", "log", "warn", "exited" }
    /\ hb \in { "none", "failed", "running", "missed", "done" }
    /\ Len(inbox) <= MaxInbox
    /\ outputs \in { 0, 1 }
    /\ reporter \in { "none" } \cup ReporterOutcomes
    /\ warm \in { "none" } \cup WarmupOutcomes

\* ------------------------------------------------------------------ claims
\* how many times x was written on the Connection
NumSent(x) == Cardinality({ i \in DOMAIN sent : sent[i] = x })

\* the main flow is in (or past) the Dispatch Loop
LoopPcs == { "recv", "run", "send_resp", "store_stop", "exit", "done" }

\* the main flow is handling the Init request (lines 65-146)
BootPcs == { "new_device", "comm", "progress", "var_builder", "model_runner",
             "warmup", "init_ack" }

\* bootstrap was cut short: a fatal step or the InitAck send failed, the
\* handler ended the process on an interrupt, or the group join is waiting
\* for the peer shards
BootstrapCutShort ==
    \/ status \in { "err", "panic" } /\ pc \in BootPcs
    \/ status = "ok" /\ hpc = "exited"
    \/ pc = "comm"

C1_AckBeforeLoaded ==
    /\ model_loaded => NumSent("InitAck(true)") = 1 /\ msg = "Init"
    /\ pc = "store_loaded" => NumSent("InitAck(true)") = 1 /\ msg = "Init"
    /\ pc \in LoopPcs => model_loaded

C2_NonInitFirstIsFatal ==
    msg \notin { "none", "Init" } =>
        /\ status = "panic"
        /\ pc = "recv_first"
        /\ sent = << "ready" >>
        /\ ~model_loaded
        /\ runner = NoSession

C2_Witness == msg = "Shutdown" /\ status = "panic"

\* C3: Run requests received and RunResponses sent alternate: at the receive
\* of the loop every request received has been answered, while a batch is run
\* or its response sent exactly one request is unanswered, and never more
\* than one.
C3_StrictAlternation ==
    /\ NumSent("RunResponse") <= runReqs
    /\ runReqs <= NumSent("RunResponse") + 1
    /\ pc = "recv" => runReqs = NumSent("RunResponse")
    /\ pc \in { "run", "send_resp" } => runReqs = NumSent("RunResponse") + 1

C3_Witness == pc = "send_resp" /\ runReqs = 2 /\ NumSent("RunResponse") = 1

\* a step that leaves the process alive and the main flow, the Connection,
\* the flags, the Runner Session and the heartbeat task as they were
Undisturbed ==
    /\ status' = "running"
    /\ UNCHANGED << pc, stream, sent, inbox, model_loaded, stop_flag, msg, rx,
                    runner, runReqs, outputs, hb >>

\* C4: with ModelLoadedFlag true, raising an interrupt, the handler's load of
\* the flag and its log branch leave the process alive and the flags, the
\* Runner Session, the Connection and the main flow's position unchanged; the
\* load always takes the log branch.
C4_InterruptIgnoredWhenLoaded ==
    [][ model_loaded =>
          /\ (interrupts' # interrupts => Undisturbed)
          /\ (sigPending' < sigPending => hpc' = "log" /\ Undisturbed)
          /\ (hpc = "log" /\ hpc' # "log" => hpc' = "wait" /\ Undisturbed) ]_vars

C4_Witness == model_loaded /\ hpc = "log" /\ pc = "send_resp" /\ Running

\* C5 as stated: from the creation of the flag on, an interrupt raised while
\* ModelLoadedFlag is false ends the process with success (at once, or by
\* waking the handler that does).
C5_Original ==
    [][ (pc # "connect" /\ ~model_loaded /\ interrupts' # interrupts)
          => (status' = "ok" \/ sigPending' > sigPending) ]_vars

\* C5 amended: before set_handler (connection retry, handshake) an interrupt
\* kills the process by SIGINT's default disposition; once the handler is
\* installed an interrupt wakes it, a load of ModelLoadedFlag as false takes
\* the exit branch, that branch ends the process with success, and a handler
\* on the exit branch leads to the end of the process.
C5_InterruptBeforeLoaded ==
    /\ [][ /\ (interrupts' # interrupts /\ ~handlerSet => status' = "sigint")
           /\ (interrupts' # interrupts /\ handlerSet
                 => status' = "running" /\ sigPending' = sigPending + 1)
           /\ (sigPending' < sigPending /\ ~model_loaded => hpc' = "warn")
           /\ (hpc = "warn" /\ hpc' # "warn"
                 => hpc' = "exited" /\ status' = "ok") ]_vars
    /\ [] (hpc = "exited" => status = "ok")
    /\ (hpc = "warn") ~> ~Running

C5_Witness ==
    hpc = "exited" /\ status = "ok" /\ ~model_loaded /\ pc = "var_builder"

\* C6: the token `ready` is written at most once, it is the first thing on
\* the Connection and is written on a connected stream; once the handler is
\* installed, the heartbeat started, a message received or the main flow past
\* the handshake, it has been written exactly once.
C6_HandshakeFirst ==
    /\ NumSent("ready") <= 1
    /\ sent # << >> => sent[1] = "ready" /\ stream = "ok"
    /\ ( \/ handlerSet \/ hb # "none" \/ rx # "none" \/ msg # "none"
         \/ pc \notin { "connect", "retry", "handshake" } )
          => NumSent("ready") = 1

C6_Witness ==
    /\ NumSent("ready") = 1 /\ NumSent("RunResponse") = 1
    /\ handlerSet /\ hb = "running"

\* C7: a Shutdown or an end-of-stream received in the loop moves the main
\* flow to the loop exit; the exit at line 200 is reached only with StopFlag
\* true and ends the process with success; from the loop exit the process
\* ends with success; once StopFlag is true the heartbeat task terminates.
C7_ShutdownOrEofEndsLoop ==
    /\ [][ (pc = "recv" /\ rx' \in { "Shutdown", "Eof" })
             => pc' = "store_stop" ]_vars
    /\ [] (pc \in { "exit", "done" } => stop_flag)
    /\ [] (pc = "done" => status = "ok")
    /\ (pc = "store_stop" /\ rx \in { "Shutdown", "Eof" }) ~> (status = "ok")
    /\ stop_flag ~> (~HbAlive \/ ~Running)

C7_Witness == rx = "Shutdown" /\ stop_flag /\ hb = "done" /\ Running

\* C8 as stated: every end of the process brought about by the main flow
\* after the Dispatch Loop was entered has StopFlag true and status success.
C8_Original ==
    (~Running /\ pc \in LoopPcs /\ hpc # "exited")
        => (stop_flag /\ status = "ok")

\* C8 amended: when the main flow ends the process after the Dispatch Loop was
\* entered, either the loop was left on Shutdown or a receive error, StopFlag
\* is true and the status is success, or running a batch, cloning the
\* Connection or sending the response failed, the error left main, StopFlag
\* is false and the status is a failure.
C8_LoopExitOrPropagatedError ==
    (~Running /\ pc \in LoopPcs /\ hpc # "exited") =>
        \/ /\ pc = "done" /\ stop_flag /\ status = "ok"
           /\ (rx = "Shutdown" \/ IsErr(rx))
        \/ /\ pc \in { "run", "send_resp" } /\ ~stop_flag /\ status = "err"
           /\ IsRun(rx)

C8_Witness == status = "err" /\ pc = "run" /\ ~stop_flag /\ hpc # "exited"

\* C9 as stated: an end-of-stream seen by any receive ends the process with
\* success.
C9_Original == (rx = "Eof" /\ ~Running) => status = "ok"

\* C9 amended: an end-of-stream seen by the loop's receive leaves the loop and
\* the process ends with success only; seen by the first receive it leaves
\* main as an error.  A failure status comes from an interrupt before the
\* handler is installed (sigint), from the handler registration, the first
\* match or the group join (panic), or from the handshake, the first receive,
\* a fatal bootstrap step, the InitAck send, a batch or a response send (err).
C9_StreamClosure ==
    /\ (rx = "Eof" /\ pc = "recv_first") => status = "err"
    /\ (rx = "Eof" /\ pc # "recv_first")
          => pc \in { "store_stop", "exit", "done" }
               /\ status \in { "running", "ok" }
    /\ status = "sigint" => ~handlerSet
    /\ status = "panic" => pc \in { "set_handler", "recv_first", "comm" }
    /\ status = "err" => pc \in { "handshake", "recv_first", "new_device",
                                  "var_builder", "model_runner", "init_ack",
                                  "run", "send_resp" }

C9_Witness == rx = "Eof" /\ pc = "recv_first" /\ status = "err"

C10_SentShape ==
    /\ \A i \in DOMAIN sent :
         /\ sent[i] = "ready" <=> i = 1
         /\ sent[i] = "InitAck(true)" <=> i = 2
         /\ sent[i] = "RunResponse" <=> i >= 3
    /\ NumSent("RunResponse") <= runReqs

\* C10: what the worker wrote is the token, then InitAck(true), then
\* RunResponses, never more of them than Run requests received; a write on
\* the Connection appends one item and is made only by the handshake, by the
\* InitAck step of an Init, or by the response step of a RunPrefill/RunDecode,
\* never by a step that receives, by the interrupt, the handler or the
\* heartbeat task.
C10_NoUnsolicitedSend ==
    /\ [] C10_SentShape
    /\ [][ sent' # sent =>
             /\ Len(sent') = Len(sent) + 1
             /\ \/ pc = "handshake" /\ sent = << >>
                \/ pc = "init_ack" /\ rx = "Init"
                \/ pc = "send_resp" /\ IsRun(rx)
             /\ UNCHANGED << inbox, interrupts, sigPending, hpc, hb,
                             stop_flag, runner >> ]_vars

C10_Witness ==
    /\ Len(sent) = 3 /\ interrupts = 1 /\ hb = "running"
    /\ runner.finished # { }

\* C11: while the stream is not connected the retry loop stays in the loop
\* and the main flow surfaces no error; once the stream is connected it stays
\* connected, no attempt replaces it and the loop is left for the handshake
\* only; if the listener is eventually present for good, the worker
\* eventually holds a Connection (or the process was ended by an interrupt).
C11_RetryUntilConnected ==
    /\ [][ (pc = "retry" /\ stream # "ok")
             => pc' = "retry" /\ status' \in { "running", "sigint" } ]_vars
    /\ [][ stream = "ok" => stream' = "ok" ]_vars
    /\ [][ (pc = "retry" /\ pc' # "retry")
             => stream = "ok" /\ pc' = "handshake" /\ sent' = << >> ]_vars
    /\ [] (pc \in { "connect", "retry" } => status \in { "running", "sigint" })
    /\ (<>[] listener) => <> (stream = "ok" \/ ~Running)

C11_Witness == pc = "handshake" /\ stream = "ok" /\ interrupts = 0

\* a Runner Session exists: it was built and the process has not ended
SessionExists == runner.live /\ Running

\* C12 as stated: a Runner Session exists exactly when ModelLoadedFlag is true
\* and the process has not ended.
C12_Original == SessionExists <=> (model_loaded /\ Running)

\* C12 amended: a live process with ModelLoadedFlag true has a Runner
\* Session; a Runner Session is built only in the Init arm, after the weights
\* were loaded, so it also exists while bootstrap is still incomplete: during
\* the warmup, the InitAck send and up to the store of the flag.
C12_SessionFromConstruction ==
    /\ (model_loaded /\ Running) => SessionExists
    /\ runner.live => msg = "Init"
    /\ runner.live <=>
          pc \in { "warmup", "init_ack", "store_loaded" } \cup LoopPcs
    /\ (runner.live /\ ~model_loaded)
          => pc \in { "warmup", "init_ack", "store_loaded" }

C12_Witness == SessionExists /\ ~model_loaded /\ pc = "init_ack"

\* C13: both flags start false; a flag that is true stays true; ModelLoadedFlag
\* is written only by the store that ends bootstrap and StopFlag only by the
\* store at the loop exit; the steps of the handler and of the heartbeat task
\* leave both flags as they are.
C13_FlagsMonotonic ==
    /\ ~model_loaded /\ ~stop_flag
    /\ [][ (model_loaded => model_loaded') /\ (stop_flag => stop_flag') ]_vars
    /\ [][ model_loaded' # model_loaded
             => pc = "store_loaded" /\ pc' = "recv" ]_vars
    /\ [][ stop_flag' # stop_flag
             => pc = "store_stop" /\ pc' = "exit" ]_vars
    /\ [][ (hpc' # hpc \/ sigPending' # sigPending \/ (hb # "none" /\ hb' # hb))
             => UNCHANGED << model_loaded, stop_flag >> ]_vars

C13_Witness == model_loaded /\ stop_flag /\ hpc = "log" /\ hb = "done"

\* C14: receiving FinishDecode(id) in the loop adds id to the sequences the
\* Runner Session has finished and changes nothing else: nothing is sent, the
\* flags and the process status stay, and the loop is at its receive again.
C14_FinishDecodeOnlyMarks ==
    [][ ( /\ pc = "recv" /\ inbox # << >>
          /\ Head(inbox).type = "FinishDecode"
          /\ inbox' = Tail(inbox) )
          => /\ runner' = [runner EXCEPT !.finished = @ \cup { Head(inbox).id }]
             /\ pc' = "recv" /\ status' = "running"
             /\ UNCHANGED << stream, sent, model_loaded, stop_flag, msg,
                             runReqs, outputs >> ]_vars

C14_Witness ==
    /\ pc = "recv" /\ Running /\ runner.finished = { 1 }
    /\ sent = << "ready", "InitAck(true)" >>

\* C15: once InitAck(true) has been sent, an interrupt never terminates the
\* worker: the handler takes no step that ends the process after the send.
C15_NoExitAfterInitAck ==
    [][ NumSent(InitAckMsg) >= 1 => ~(hpc # "exited" /\ hpc' = "exited") ]_vars

\* the bootstrap steps whose failure is propagated or panics
FatalBootPcs == { "new_device", "comm", "var_builder", "model_runner" }

\* C16: when device resolution, the group join, the weight loading or the
\* runner construction fails, the process ends there with a non-success
\* status and nothing else changes; up to these steps no InitAck was sent and
\* ModelLoadedFlag is false, and an ended process takes no further step, so
\* nothing is retried and the loop is never entered.
C16_FatalBootstrapFailure ==
    /\ [][ ( /\ pc \in FatalBootPcs /\ status = "running"
             /\ status' # "running" /\ hpc' = hpc )
             => /\ status' \in { "err", "panic" }
                /\ pc' = pc
                /\ UNCHANGED << sent, model_loaded, stop_flag, runner >> ]_vars
    /\ [] ( pc \in FatalBootPcs
              => sent = << "ready" >> /\ ~model_loaded /\ ~runner.live )
    /\ [][ status # "running" => UNCHANGED vars ]_vars

C16_Witness == pc = "var_builder" /\ status = "err" /\ msg = "Init"

\* C17: the reporter step and the warmup step go on to the next bootstrap
\* step whatever their outcome; after them InitAck(true) is sent once, the
\* flag is set and the loop is entered as after a clean bootstrap.
C17_BestEffortSteps ==
    /\ [][ (pc = "progress" /\ pc' # pc)
             => /\ pc' = "var_builder" /\ status' = "running"
                /\ reporter' \in ReporterOutcomes ]_vars
    /\ [][ (pc = "warmup" /\ pc' # pc)
             => /\ pc' = "init_ack" /\ status' = "running"
                /\ warm' \in WarmupOutcomes ]_vars
    /\ [] ( (pc \in { "progress", "warmup" } /\ ~Running)
              => hpc = "exited" /\ status = "ok" )
    /\ [][ (pc = "init_ack" /\ sent' # sent)
             => /\ sent' = Append(sent, InitAckMsg) /\ NumSent(InitAckMsg) = 0
                /\ pc' = "store_loaded" ]_vars
    /\ [][ (pc = "store_loaded" /\ pc' # pc)
             => model_loaded' /\ pc' = "recv" /\ status' = "running" ]_vars

C17_Witness ==
    /\ pc = "store_loaded" /\ Running
    /\ reporter = "local" /\ warm = "failed"
    /\ NumSent(InitAckMsg) = 1

\* the variants the loop only logs
LoggedTypes == { "LoadingProgress", "Init", "InitAck", "RunResponse" }

\* C18: receiving LoadingProgress, Init, InitAck or RunResponse in the loop
\* changes nothing but the stream: nothing is sent, the Runner Session, the
\* flags and the first message stay, the process lives and the loop is at its
\* receive again.
C18_LoggedAndIgnored ==
    [][ ( /\ pc = "recv" /\ inbox # << >>
          /\ Head(inbox).type \in LoggedTypes
          /\ inbox' = Tail(inbox) )
          => /\ pc' = "recv" /\ status' = "running"
             /\ UNCHANGED << stream, sent, model_loaded, stop_flag, msg,
                             runner, runReqs, outputs >> ]_vars

C18_Witness ==
    /\ pc = "recv" /\ Running /\ model_loaded
    /\ coordSent = 2 /\ inbox = << >>
    /\ runReqs = 0 /\ runner.finished = { }

\* C19: the heartbeat task exists only after the handshake; starting it,
\* whether that succeeds or fails, moves the main flow to its first receive;
\* every later step of the task, a failed liveness send included, changes
\* only the task itself.
C19_HeartbeatApart ==
    /\ [] ( hb # "none" => NumSent("ready") = 1 /\ stream = "ok" )
    /\ [][ (hb = "none" /\ hb' # "none")
             => /\ pc = "heartbeat" /\ pc' = "recv_first"
                /\ status' = "running"
                /\ UNCHANGED << sent, inbox, model_loaded, msg, runner >> ]_vars
    /\ [][ (hb # "none" /\ hb' # hb)
             => UNCHANGED << pc, status, stream, sent, inbox, model_loaded,
                             stop_flag, msg, rx, runner, runReqs,
                             outputs >> ]_vars

C19_Witness ==
    /\ hb = "missed" /\ Running /\ pc = "recv"
    /\ model_loaded /\ runReqs = 1

\* C20: at most one InitAck is ever sent and it is InitAck(true); it is sent
\* by the Init arm of bootstrap, with the Runner Session built; an Init that
\* the loop receives sends nothing and leaves the Runner Session as it is.
C20_SingleInitAck ==
    /\ [] ( /\ NumSent(InitAckMsg) <= 1 /\ NumSent("InitAck(false)") = 0
            /\ (NumSent(InitAckMsg) = 1 => runner.live /\ msg = "Init") )
    /\ [][ NumSent(InitAckMsg)' # NumSent(InitAckMsg)
             => pc = "init_ack" /\ runner.live /\ runner' = runner ]_vars
    /\ [][ ( /\ pc = "recv" /\ inbox # << >>
             /\ Head(inbox).type = "Init"
             /\ inbox' = Tail(inbox) )
             => sent' = sent /\ runner' = runner /\ pc' = "recv" ]_vars

C20_Witness ==
    /\ pc = "done" /\ status = "ok" /\ rx = "Eof"
    /\ NumSent(InitAckMsg) = 1 /\ Len(sent) = 2
    /\ coordSent = 2 /\ runner.finished = { }

====
